---- MODULE Spec2Model ----
(***************************************************************************)
(* A model of addon/state.js of ember-states: the State class (a node of   *)
(* a hierarchical state machine), its init / setupChild tree building, the *)
(* computed properties path and isLeaf, the per-manager-type pathsCaches,  *)
(* lookupEventTransition, trigger, and State.transitionTo.                 *)
(*                                                                         *)
(* JavaScript values are modelled as follows.  Strings are TLA+ strings.   *)
(* null and undefined are the two sentinel strings NULL and UNDEFINED,     *)
(* which are no property name, path or target of the model.  A plain       *)
(* object used as a hash is a function whose DOMAIN is its set of keys.    *)
(* An object literal whose iteration order matters (a declaration) is a    *)
(* sequence of <<key, value>> pairs in insertion order.  State instances   *)
(* are the numbers 1..count, in order of creation; 0 is "no state".        *)
(***************************************************************************)
EXTENDS Integers, Sequences, FiniteSets, TLC

\* ------------------------------------------------------------- bounds
MaxNodes == 4          \* State instances created in one run
LeafNodes == 3         \* ... in a run that reads isLeaf
LeafAttach == 3        \* total length of the childStates arrays in such a run
PathNodes == 4         \* State instances in a run that reads path
EventNodes == 4        \* State instances in a run that looks up events
BuildNodes == 2        \* State instances in a run that builds declarations
MaxProps == 2          \* properties of one declaration
CacheNodes == 1        \* State instances in a run that uses pathsCaches
MaxSets == 3           \* setPathsCache calls in one run
MaxArgs == 3           \* arguments after the first in one call
MaxListeners == 2      \* listeners registered on one state for one event

\* ------------------------------------------------------ JavaScript values
NULL == "<null>"
UNDEFINED == "<undefined>"
NoState == 0

\* JavaScript truthiness of a string-or-null-or-undefined value
Truthy(v) == v \notin {NULL, UNDEFINED, ""}

\* hash[key] on a plain object
Get(hash, key) == IF key \in DOMAIN hash THEN hash[key] ELSE UNDEFINED

\* hash[key] = value on a plain object
Put(hash, key, value) ==
    [k \in DOMAIN hash \cup {key} |-> IF k = key THEN value ELSE hash[k]]

EmptyHash == <<>>

\* The values a property of a declaration can hold.
InstanceVal(n) == [kind |-> "State", node |-> n, transitionTarget |-> UNDEFINED]
ClassVal == [kind |-> "StateClass", node |-> NoState, transitionTarget |-> UNDEFINED]
MethodVal == [kind |-> "function", node |-> NoState, transitionTarget |-> UNDEFINED]
NullVal == [kind |-> "null", node |-> NoState, transitionTarget |-> UNDEFINED]
\* the function State.transitionTo(target) returns
ActionVal(target) == [kind |-> "function", node |-> NoState, transitionTarget |-> target]

\* `if (value)` on a property value
TruthyVal(value) == value.kind # "null"

VARIABLES
    count,              \* number of State instances created so far
    name,               \* name[n]: the state's name, or NULL
    parentState,        \* parentState[n]: the parent state, or NoState
    childStates,        \* childStates[n]: the Ember array of children
    states,             \* states[n]: the states hash, name -> value
    eventTransitions,   \* eventTransitions[n]: event name -> target
    props,              \* props[n]: the other own properties, name -> value
    pathsCaches,        \* pathsCaches[n][typeGuid][path]
    cachedPath,         \* the cache of the computed property path
    cachedIsLeaf,       \* the cache of the computed property isLeaf
    listeners,          \* listeners[n][event]: Ember.Evented subscriptions
    calls,              \* the calls the last operation made, in order
    nsets,              \* setPathsCache calls made so far
    written,            \* history: the value last passed to setPathsCache
                        \* for <<state, manager type, path>>
    last                \* the last operation and what it returned

treeVars == <<count, name, parentState, childStates, states, eventTransitions, props>>
computedVars == <<cachedPath, cachedIsLeaf>>
cacheVars == <<pathsCaches, nsets, written>>
eventVars == <<listeners, calls>>

vars == <<treeVars, computedVars, cacheVars, eventVars, last>>

Nodes == 1..MaxNodes
Created == 1..count

\* The object graph as one value, for the operators that update it.
Heap == [count |-> count, name |-> name, parentState |-> parentState,
         childStates |-> childStates, states |-> states,
         eventTransitions |-> eventTransitions, props |-> props,
         pathsCaches |-> pathsCaches]

\* ------------------------------------------------------------ the tree
\* The hash an object literal denotes (its keys are distinct).
HashOf(pairs) ==
    [k \in {pairs[i][1] : i \in DOMAIN pairs} |->
        pairs[CHOOSE i \in DOMAIN pairs : pairs[i][1] = k][2]]

\* Ember.Object.create: a fresh instance with the class defaults
\* (parentState: null, name: null) and the given own properties.
Allocate(H, nm, ownStates, ownTransitions, ownProps) ==
    LET n == H.count + 1 IN
    [H EXCEPT !.count = n,
              !.name[n] = nm,
              !.parentState[n] = NoState,
              !.childStates[n] = <<>>,
              !.states[n] = ownStates,
              !.eventTransitions[n] = ownTransitions,
              !.props[n] = ownProps,
              !.pathsCaches[n] = EmptyHash]

\* value.create({name: name, container: this.container}) on the State
\* class itself: init finds no states hash and no State among the
\* properties, and leaves childStates, eventTransitions, states and
\* pathsCaches empty.
CreateFromClass(H, nm) == Allocate(H, nm, EmptyHash, EmptyHash, EmptyHash)

\* the instance setupChild attaches for `value`, or NoState
InstanceFor(H, value) ==
    IF value.kind = "State" THEN value.node
    ELSE IF value.kind = "StateClass" THEN H.count + 1
    ELSE NoState

\* instance.parentState = this; childStates.pushObject(instance);
\* states[name] = instance
AttachInstance(H, this, nm, instance) ==
    [H EXCEPT !.parentState[instance] = this,
              !.childStates[this] = Append(@, instance),
              !.states[this] = Put(@, nm, InstanceVal(instance))]

\* this.setupChild(states, name, value), with states the hash of `this`
setupChild(H, this, nm, value) ==
    IF ~TruthyVal(value) THEN H
    ELSE LET instance == InstanceFor(H, value)
             H1 == IF value.kind = "State"
                   THEN [H EXCEPT !.name[value.node] = nm]
                   ELSE IF value.kind = "StateClass"
                   THEN CreateFromClass(H, nm)
                   ELSE H
         IN IF instance # NoState
            THEN AttachInstance(H1, this, nm, instance)
            ELSE H1

\* ScanProperties with the registration of transition targets left out
RECURSIVE ScanPropertiesUnregistered(_, _, _, _)
ScanPropertiesUnregistered(H, this, pairs, i) ==
    IF i > Len(pairs) THEN H
    ELSE IF pairs[i][1] = "constructor" \/ ~TruthyVal(pairs[i][2])
         THEN ScanPropertiesUnregistered(H, this, pairs, i + 1)
         ELSE ScanPropertiesUnregistered(setupChild(H, this, pairs[i][1], pairs[i][2]),
                                         this, pairs, i + 1)

\* the loop `for (name in this)` of init, from the i-th property on
RECURSIVE ScanProperties(_, _, _, _)
ScanProperties(H, this, pairs, i) ==
    IF i > Len(pairs) THEN H
    ELSE LET nm == pairs[i][1]
             value == pairs[i][2]
             target == value.transitionTarget
             H1 == IF TruthyVal(value) /\ Truthy(target)
                   THEN [H EXCEPT !.eventTransitions[this] = Put(@, nm, target)]
                   ELSE H
         IN IF nm = "constructor" \/ ~TruthyVal(value)
            THEN ScanProperties(H, this, pairs, i + 1)
            ELSE ScanProperties(setupChild(H1, this, nm, value), this, pairs, i + 1)

\* the loop `for (name in states)` of init, from the i-th key on
RECURSIVE ScanStates(_, _, _, _)
ScanStates(H, this, pairs, i) ==
    IF i > Len(pairs) THEN H
    ELSE ScanStates(setupChild(H, this, pairs[i][1], H.states[this][pairs[i][1]]),
                    this, pairs, i + 1)

\* State.create(decl): the new instance is H.count + 1.  decl.hasStates
\* says whether the declaration holds a states hash (decl.states);
\* decl.props are its other properties, decl.eventTransitions the
\* eventTransitions hash it supplies ({} when it supplies none), and
\* decl.name the name it supplies (null when it supplies none).
init(H, decl) ==
    LET this == H.count + 1
        H0 == Allocate(H, decl.name,
                       IF decl.hasStates THEN HashOf(decl.states) ELSE EmptyHash,
                       decl.eventTransitions, HashOf(decl.props))
    IN IF ~decl.hasStates
       THEN ScanProperties(H0, this, decl.props, 1)
       ELSE ScanStates(H0, this, decl.states, 1)

\* ------------------------------------------- computed properties, lookup
\* string conversion by the + operator
Str(v) == IF v = NULL THEN "null" ELSE IF v = UNDEFINED THEN "undefined" ELSE v

NoCache == [computed |-> FALSE, value |-> UNDEFINED]

\* pathBody with the parent's path dropped
pathBodyNameOnly(parentPath, nm) == nm

\* the body of the computed property path, given parentState.path
pathBody(parentPath, nm) ==
    IF Truthy(parentPath) THEN Str(parentPath) \o "." \o Str(nm) ELSE nm

\* get(n, 'path'): Ember.computed caches the value of the first get;
\* the body gets parentState.path, which fills the parent's cache too.
\* The operator yields the caches after the get.
RECURSIVE getPath(_, _)
getPath(cache, n) ==
    IF cache[n].computed THEN cache
    ELSE LET p == parentState[n]
             c1 == IF p = NoState THEN cache ELSE getPath(cache, p)
             parentPath == IF p = NoState THEN UNDEFINED ELSE c1[p].value
         IN [c1 EXCEPT ![n] = [computed |-> TRUE,
                               value |-> pathBody(parentPath, name[n])]]

\* the body of the computed property isLeaf
isLeafBody(n) == Len(childStates[n]) = 0

\* get(n, 'isLeaf'): cached like path; yields the cache after the get
getIsLeaf(cache, n) ==
    IF cache[n].computed THEN cache
    ELSE [cache EXCEPT ![n] = [computed |-> TRUE, value |-> isLeafBody(n)]]

\* lookupLoop that climbs to the root whatever it has found
RECURSIVE lookupLoopToRoot(_, _, _)
lookupLoopToRoot(state, path, event) ==
    IF state # NoState
    THEN lookupLoopToRoot(parentState[state], Get(eventTransitions[state], event), event)
    ELSE path

\* the loop of lookupEventTransition, at `state` with `path` found so far
RECURSIVE lookupLoop(_, _, _)
lookupLoop(state, path, event) ==
    IF state # NoState /\ ~Truthy(path)
    THEN lookupLoop(parentState[state], Get(eventTransitions[state], event), event)
    ELSE path

lookupEventTransition(n, event) == lookupLoop(n, UNDEFINED, event)

\* the states from n up to the root, n first
RECURSIVE Chain(_)
Chain(n) == IF n = NoState THEN <<>> ELSE <<n>> \o Chain(parentState[n])

ChainSet(n) == {Chain(n)[i] : i \in DOMAIN Chain(n)}

\* ------------------------------------------------------- initial state
Init ==
    /\ count = 0
    /\ name = [n \in Nodes |-> NULL]
    /\ parentState = [n \in Nodes |-> NoState]
    /\ childStates = [n \in Nodes |-> <<>>]
    /\ states = [n \in Nodes |-> EmptyHash]
    /\ eventTransitions = [n \in Nodes |-> EmptyHash]
    /\ props = [n \in Nodes |-> EmptyHash]
    /\ pathsCaches = [n \in Nodes |-> EmptyHash]
    /\ cachedPath = [n \in Nodes |-> NoCache]
    /\ cachedIsLeaf = [n \in Nodes |-> NoCache]
    /\ listeners = [n \in Nodes |-> EmptyHash]
    /\ calls = <<>>
    /\ nsets = 0
    /\ written = EmptyHash
    /\ last = [op |-> "none"]

SetHeap(H) ==
    /\ count' = H.count
    /\ name' = H.name
    /\ parentState' = H.parentState
    /\ childStates' = H.childStates
    /\ states' = H.states
    /\ eventTransitions' = H.eventTransitions
    /\ props' = H.props
    /\ pathsCaches' = H.pathsCaches

RECURSIVE SumLen(_, _)
SumLen(f, n) == IF n = 0 THEN 0 ELSE Len(f[n]) + SumLen(f, n - 1)

\* the total length of the childStates arrays
Attached(H) == SumLen(H.childStates, MaxNodes)

\* the State classes a declaration makes init instantiate
ClassCount(pairs) == Cardinality({i \in DOMAIN pairs : pairs[i][2].kind = "StateClass"})

\* ------------------------------------------------------------- actions
\* State.create(decl), while at most nodeCap instances and attachCap
\* attachments exist afterwards
Create(decl, nodeCap, attachCap) ==
    /\ count + 1 + ClassCount(decl.props) + ClassCount(decl.states) <= nodeCap
    /\ LET H == init(Heap, decl) IN
       /\ Attached(H) <= attachCap
       /\ SetHeap(H)
    /\ last' = [op |-> "create", node |-> count + 1, hasStates |-> decl.hasStates]
    /\ UNCHANGED <<computedVars, eventVars, nsets, written>>

\* this.setupChild(this.states, name, value) on a built state.  The value
\* is no ancestor of `this` and not `this`: the parent chain stays a chain.
SetupChild(this, nm, value, nodeCap, attachCap) ==
    /\ this \in Created
    /\ value.kind = "State" => value.node \notin ChainSet(this)
    /\ value.kind = "StateClass" => count < nodeCap
    /\ Attached(Heap) < attachCap
    /\ SetHeap(setupChild(Heap, this, nm, value))
    /\ last' = [op |-> "setupChild"]
    /\ UNCHANGED <<computedVars, eventVars, nsets, written>>

\* get(n, 'isLeaf')
GetIsLeaf(n) ==
    /\ n \in Created
    /\ cachedIsLeaf' = getIsLeaf(cachedIsLeaf, n)
    /\ last' = [op |-> "isLeaf", node |-> n, ret |-> cachedIsLeaf'[n].value]
    /\ UNCHANGED <<treeVars, cacheVars, eventVars, cachedPath>>

\* get(n, 'path'); first: no path on n's chain was computed before
GetPath(n) ==
    /\ n \in Created
    /\ cachedPath' = getPath(cachedPath, n)
    /\ last' = [op |-> "path", node |-> n, ret |-> cachedPath'[n].value,
                first |-> \A m \in ChainSet(n) : ~cachedPath[m].computed]
    /\ UNCHANGED <<treeVars, cacheVars, eventVars, cachedIsLeaf>>

\* n.lookupEventTransition(event)
LookupEventTransition(n, event) ==
    /\ n \in Created
    /\ last' = [op |-> "lookup", node |-> n, event |-> event,
                ret |-> lookupEventTransition(n, event)]
    /\ UNCHANGED <<treeVars, cacheVars, eventVars, computedVars>>

\* ------------------------------------------------------ the inputs drawn
ChildNames == {"a", "b"}
RootNames == {NULL, "r"}

\* object literals of at most max properties, each a <<key, value>> of P
Literals(P, max) ==
    {s \in UNION {[1..k -> P] : k \in 0..max} :
        \A i, j \in DOMAIN s : s[i][1] = s[j][1] => i = j}

\* a declaration that lists its properties, and one that holds a states hash
AdHoc(nm, ps, et) ==
    [hasStates |-> FALSE, states |-> <<>>, props |-> ps,
     eventTransitions |-> et, name |-> nm]
WithStates(nm, ss, ps, et) ==
    [hasStates |-> TRUE, states |-> ss, props |-> ps,
     eventTransitions |-> et, name |-> nm]

\* the State instances and classes a declaration can name
StateValues == {InstanceVal(n) : n \in Created} \cup {ClassVal}

\* the State instances that have no parent yet
RootValues == {InstanceVal(n) : n \in {m \in Created : parentState[m] = NoState}}

\* declarations of child states only, as properties or in a states hash
StructDecls(names, values) ==
    {AdHoc(nm, ps, EmptyHash) :
        nm \in names, ps \in Literals(ChildNames \X values, MaxProps)}
    \cup
    {WithStates(nm, ss, <<>>, EmptyHash) :
        nm \in names, ss \in Literals(ChildNames \X values, MaxProps)}

\* declarations of at most one child state, as a property
ChainDecls(names, values) ==
    {AdHoc(nm, ps, EmptyHash) :
        nm \in names, ps \in Literals(ChildNames \X values, 1)}

EventNames == {"go", "stop"}
Targets == {"stateTwo", "a.b"}

\* the transition actions a declaration of SpecEvents can hold
LookupActions ==
    ({"go"} \X {ActionVal(t) : t \in Targets}) \cup ({"stop"} \X {ActionVal("stateTwo")})

\* declarations of at most one child state and one transition action
LookupDecls ==
    {AdHoc(NULL, cs \o as, EmptyHash) :
        cs \in Literals({"a"} \X RootValues, 1), as \in Literals(LookupActions, 1)}

\* the properties of the declarations of SpecBuild
BuildPairs ==
    ({"go"} \X {ActionVal("stateTwo"), ActionVal(""), MethodVal})
    \cup ({"constructor"} \X {ActionVal("stateTwo")})
    \cup ({"a"} \X StateValues)

\* the eventTransitions hash a declaration supplies
Supplied == {EmptyHash, [e \in {"go"} |-> "a.b"]}

\* declarations that list their properties, and declarations that hold a
\* states hash beside their other properties
BuildDecls ==
    {AdHoc(NULL, ps, et) : ps \in Literals(BuildPairs, 2), et \in Supplied}
    \cup
    {WithStates(NULL, ss, ps, EmptyHash) :
        ss \in Literals({"a"} \X StateValues, 1), ps \in Literals(BuildPairs, 1)}

\* ------------------------------------------------------- specifications
\* Building and rewiring trees, and reading isLeaf.
NextLeaf ==
    \/ \E decl \in StructDecls({NULL}, StateValues) : Create(decl, LeafNodes, LeafAttach)
    \/ \E this \in Created, nm \in ChildNames, value \in StateValues :
          SetupChild(this, nm, value, LeafNodes, LeafAttach)
    \/ \E n \in Created : GetIsLeaf(n)

SpecLeaf == Init /\ [][NextLeaf]_vars

\* Building trees bottom-up and reading path.
NextPath ==
    \/ \E decl \in ChainDecls(RootNames, RootValues) : Create(decl, PathNodes, PathNodes)
    \/ \E n \in Created : GetPath(n)

SpecPath == Init /\ [][NextPath]_vars

\* Building trees bottom-up and looking up event transitions.
NextEvents ==
    \/ \E decl \in LookupDecls : Create(decl, EventNodes, EventNodes)
    \/ \E n \in Created, event \in EventNames : LookupEventTransition(n, event)

SpecEvents == Init /\ [][NextEvents]_vars

\* Building declarations of every shape.
NextBuild ==
    \/ \E decl \in BuildDecls : Create(decl, BuildNodes, BuildNodes)
    \/ \E n \in Created, event \in {"go", "constructor"} :
          LookupEventTransition(n, event)

SpecBuild == Init /\ [][NextBuild]_vars

\* ---------------------------------------------------------- pathsCaches
\* The state managers: two instances of one class and one of another.
Managers ==
    {[self |-> "door1", constructor |-> "DoorManager"],
     [self |-> "door2", constructor |-> "DoorManager"],
     [self |-> "light1", constructor |-> "LightManager"]}

\* Ember.guidFor: one stable identifier per object
guidFor(object) == "ember-" \o object

\* the cache key taken from the manager instance itself
instanceGuid(stateManager) == guidFor(stateManager.self)

\* Ember.guidFor(stateManager.constructor)
stateManagerTypeGuid(stateManager) == guidFor(stateManager.constructor)

\* pathsCaches[stateManagerTypeGuid] || {}
pathsCacheForManager(caches, stateManager) ==
    IF stateManagerTypeGuid(stateManager) \in DOMAIN caches
    THEN caches[stateManagerTypeGuid(stateManager)]
    ELSE EmptyHash

\* setPathsCache that stores the path in a new hash every time
setPathsCacheFresh(caches, stateManager, path, transitions) ==
    Put(caches, stateManagerTypeGuid(stateManager), Put(EmptyHash, path, transitions))

\* setPathsCache that does not store the hash it created back
setPathsCacheUnstored(caches, stateManager, path, transitions) ==
    IF stateManagerTypeGuid(stateManager) \in DOMAIN caches
    THEN Put(caches, stateManagerTypeGuid(stateManager),
             Put(caches[stateManagerTypeGuid(stateManager)], path, transitions))
    ELSE caches

\* state.setPathsCache(stateManager, path, transitions), on the state's
\* pathsCaches; yields the pathsCaches after the call
setPathsCache(caches, stateManager, path, transitions) ==
    Put(caches, stateManagerTypeGuid(stateManager),
        Put(pathsCacheForManager(caches, stateManager), path, transitions))

\* state.getPathsCache(stateManager, path)
getPathsCache(caches, stateManager, path) ==
    Get(pathsCacheForManager(caches, stateManager), path)

Paths == {"a", "a.b"}
TransitionHashes == {"t1", "t2"}

SetPathsCache(n, stateManager, path, transitions) ==
    /\ n \in Created
    /\ nsets < MaxSets
    /\ pathsCaches' = [pathsCaches EXCEPT
                          ![n] = setPathsCache(@, stateManager, path, transitions)]
    /\ nsets' = nsets + 1
    /\ written' = Put(written, <<n, stateManager.constructor, path>>,
                      [value |-> transitions, by |-> stateManager.self])
    /\ last' = [op |-> "setPathsCache", node |-> n, manager |-> stateManager,
                path |-> path, value |-> transitions]
    /\ UNCHANGED <<treeVars, computedVars, eventVars>>

GetPathsCache(n, stateManager, path) ==
    /\ n \in Created
    /\ last' = [op |-> "getPathsCache", node |-> n, manager |-> stateManager,
                path |-> path, ret |-> getPathsCache(pathsCaches[n], stateManager, path)]
    /\ UNCHANGED <<treeVars, computedVars, cacheVars, eventVars>>

\* States without children or actions, and their pathsCaches.
NextCache ==
    \/ Create(AdHoc(NULL, <<>>, EmptyHash), CacheNodes, 0)
    \/ \E n \in Created, m \in Managers, path \in Paths, t \in TransitionHashes :
          SetPathsCache(n, m, path, t)
    \/ \E n \in Created, m \in Managers, path \in Paths : GetPathsCache(n, m, path)

SpecCache == Init /\ [][NextCache]_vars

\* -------------------------------------------------------------- trigger
\* this[name] on a state: the declared property, or undefined
GetProp(n, nm) == IF nm \in DOMAIN props[n] THEN props[n][nm] ELSE NullVal

\* listeners[n][event], the subscriptions in the order they were made
ListenersOf(n, event) ==
    IF event \in DOMAIN listeners[n] THEN listeners[n][event] ELSE <<>>

MethodCall(nm, args) ==
    [callee |-> "method", name |-> nm, listener |-> 0, args |-> args]
ListenerCall(nm, listener, args) ==
    [callee |-> "listener", name |-> nm, listener |-> listener, args |-> args]

\* this._super.apply(this, arguments): Ember.Evented's trigger calls each
\* listener subscribed to the event, in order, with the arguments
superTrigger(n, nm, args) ==
    [i \in 1..Len(ListenersOf(n, nm)) |-> ListenerCall(nm, ListenersOf(n, nm)[i], args)]

\* trigger that fires the listeners before it calls the method
triggerListenersFirst(n, nm, args) ==
    superTrigger(n, nm, args)
    \o (IF TruthyVal(GetProp(n, nm)) THEN <<MethodCall(nm, args)>> ELSE <<>>)

\* state.trigger(name, ...args): the calls it makes, in order
trigger(n, nm, args) ==
    (IF TruthyVal(GetProp(n, nm)) THEN <<MethodCall(nm, args)>> ELSE <<>>)
    \o superTrigger(n, nm, args)

TriggerNames == {"enter", "exit"}
ListenerIds == 1..MaxListeners

\* the arguments after the event name: none, the manager, manager and context
TriggerArgs == {<<>>, <<"manager">>, <<"manager", "context">>}

\* declarations of methods (or null properties) named like events
TriggerDecls ==
    {AdHoc(NULL, ps, EmptyHash) :
        ps \in Literals(TriggerNames \X {MethodVal, NullVal}, 2)}

\* state.on(event, listener) of Ember.Evented: subscribes a listener once
On(n, event, listener) ==
    /\ n \in Created
    /\ \A i \in DOMAIN ListenersOf(n, event) : ListenersOf(n, event)[i] # listener
    /\ listeners' = [listeners EXCEPT
                        ![n] = Put(@, event, Append(ListenersOf(n, event), listener))]
    /\ calls' = <<>>
    /\ last' = [op |-> "on"]
    /\ UNCHANGED <<treeVars, computedVars, cacheVars>>

Trigger(n, event, args) ==
    /\ n \in Created
    /\ calls' = trigger(n, event, args)
    /\ last' = [op |-> "trigger", node |-> n, event |-> event, args |-> args]
    /\ UNCHANGED <<treeVars, computedVars, cacheVars, listeners>>

\* One state, its methods and its listeners.
NextTrigger ==
    \/ \E decl \in TriggerDecls : Create(decl, 1, 0)
    \/ \E n \in Created, event \in TriggerNames, l \in ListenerIds : On(n, event, l)
    \/ \E n \in Created, event \in TriggerNames, args \in TriggerArgs :
          Trigger(n, event, args)

SpecTrigger == Init /\ [][NextTrigger]_vars

\* ------------------------------------------------------ State.transitionTo
\* The values passed to a transition action.
NumberArg(v) == [kind |-> "number", v |-> v, hasContexts |-> FALSE, contexts |-> <<>>]
StringArg(v) == [kind |-> "string", v |-> v, hasContexts |-> FALSE, contexts |-> <<>>]
NullArg == [kind |-> "null", v |-> "", hasContexts |-> FALSE, contexts |-> <<>>]
\* a plain object, here with a contexts property
ObjectArg(contexts) ==
    [kind |-> "object", v |-> "", hasContexts |-> TRUE, contexts |-> contexts]
\* an instance of Ember.$.Event, with or without an own contexts property
EventArg(hasContexts, contexts) ==
    [kind |-> "Event", v |-> "", hasContexts |-> hasContexts, contexts |-> contexts]

\* transitionFunction that takes contextOrEvent alone as the contexts
contextsFirstOnly(hasEvent, args) ==
    IF Len(args) >= 1 /\ args[1].kind # "null" /\ hasEvent /\ args[1].kind = "Event"
    THEN IF args[1].hasContexts THEN args[1].contexts ELSE <<>>
    ELSE IF Len(args) = 0 THEN <<>> ELSE <<args[1]>>

\* the contexts transitionFunction collects; args are its arguments after
\* stateManager, hasEvent says whether Ember.$ && Ember.$.Event is defined
contextsOf(hasEvent, args) ==
    IF Len(args) >= 1 /\ args[1].kind # "null" /\ hasEvent /\ args[1].kind = "Event"
    THEN IF args[1].hasContexts THEN args[1].contexts ELSE <<>>
    ELSE args

\* transitionFunction(stateManager, ...args) of State.transitionTo(target):
\* the calls it makes
transitionFunction(target, stateManager, hasEvent, args) ==
    <<[callee |-> "transitionTo", manager |-> stateManager.self,
       args |-> <<StringArg(target)>> \o contextsOf(hasEvent, args)]>>

\* the first argument drawn; Event instances exist only where Ember.$ does
FirstArgs(hasEvent) ==
    {NumberArg("1"), NumberArg("2"), NullArg, ObjectArg(<<NumberArg("42")>>)}
    \cup (IF hasEvent
          THEN {EventArg(TRUE, <<NumberArg("42"), NumberArg("1")>>), EventArg(FALSE, <<>>)}
          ELSE {})

\* the arguments drawn after the first
MoreArgs == {NumberArg("1"), NumberArg("2")}

ArgLists(hasEvent) ==
    {<<>>} \cup
    UNION {{<<first>> \o more : first \in FirstArgs(hasEvent), more \in [1..k -> MoreArgs]} :
              k \in 0..(MaxArgs - 1)}

\* declarations of one transition action
ActionDecls ==
    {AdHoc(NULL, ps, EmptyHash) :
        ps \in Literals(EventNames \X {ActionVal(t) : t \in Targets}, 1)}

\* state[nm](stateManager, ...args), where state[nm] was made by transitionTo
CallAction(n, nm, stateManager, hasEvent, args) ==
    /\ n \in Created
    /\ GetProp(n, nm).kind = "function"
    /\ GetProp(n, nm).transitionTarget # UNDEFINED
    /\ calls' = transitionFunction(GetProp(n, nm).transitionTarget, stateManager,
                                   hasEvent, args)
    /\ last' = [op |-> "action", node |-> n, name |-> nm, manager |-> stateManager,
                target |-> GetProp(n, nm).transitionTarget, args |-> args]
    /\ UNCHANGED <<treeVars, computedVars, cacheVars, listeners>>

\* One state with a transition action, called with every argument list.
NextAction ==
    \/ \E decl \in ActionDecls : Create(decl, 1, 0)
    \/ \E n \in Created, nm \in EventNames, m \in Managers, hasEvent \in BOOLEAN :
          \E args \in ArgLists(hasEvent) : CallAction(n, nm, m, hasEvent, args)

SpecAction == Init /\ [][NextAction]_vars

\* ------------------------------------------------------------ properties
\* the positions on n's chain (n first) whose state declares the event
Declaring(n, event) ==
    {i \in DOMAIN Chain(n) : event \in DOMAIN eventTransitions[Chain(n)[i]]}

Least(S) == CHOOSE i \in S : \A j \in S : i <= j

\* C1: lookupEventTransition(e) on n returns the target that the nearest
\* state on the chain n, parent(n), ..., root declaring e gives it, and
\* undefined when no state on that chain declares e.
C1_NearestDeclarationWins ==
    last.op = "lookup" =>
        LET D == Declaring(last.node, last.event) IN
        last.ret = IF D = {} THEN UNDEFINED
                   ELSE eventTransitions[Chain(last.node)[Least(D)]][last.event]

\* a lookup from a state that does not declare the event, whose parent and
\* grandparent declare it with different targets, and one that finds nothing
C1_Witness ==
    /\ last.op = "lookup"
    /\ Len(Chain(last.node)) >= 3
    /\ Declaring(last.node, last.event) = {2, 3}
    /\ last.ret = "a.b"
    /\ eventTransitions[Chain(last.node)[3]][last.event] = "stateTwo"

\* the names from the root down to n
RECURSIVE NamesDown(_)
NamesDown(n) == IF n = NoState THEN <<>> ELSE Append(NamesDown(parentState[n]), name[n])

RECURSIVE JoinDots(_)
JoinDots(segs) ==
    IF Len(segs) = 1 THEN segs[1]
    ELSE JoinDots(SubSeq(segs, 1, Len(segs) - 1)) \o "." \o segs[Len(segs)]

\* the names from the root down to n joined by ".", an unnamed root left out
JoinedPath(n) ==
    LET segs == NamesDown(n)
        named == IF segs[1] = NULL THEN Tail(segs) ELSE segs
    IN IF named = <<>> THEN NULL ELSE JoinDots(named)

\* C2: in a wired tree (no path on n's chain was computed before the chain
\* was wired) n.path is the names from the root down to n joined by ".",
\* an unnamed root contributing nothing; a state without a parent has its
\* own name as path.
C2_PathJoinsNames ==
    (last.op = "path" /\ last.first) => last.ret = JoinedPath(last.node)

\* the chain root -> a -> b -> n under an unnamed root
C2_Witness ==
    /\ last.op = "path" /\ last.first
    /\ Len(Chain(last.node)) = 4
    /\ name[Chain(last.node)[4]] = NULL
    /\ name[Chain(last.node)[3]] = "a"
    /\ name[Chain(last.node)[2]] = "b"
    /\ last.ret = "a.b." \o name[last.node]

\* C7: isLeaf is true exactly when childStates is empty at the moment of
\* the query.
C7_IsLeafIffNoChildren ==
    last.op = "isLeaf" => (last.ret <=> Len(childStates[last.node]) = 0)

\* the transition actions among the properties of state n: a function
\* with a transitionTarget, under a name other than "constructor"
ActionProps(n) ==
    {p \in DOMAIN props[n] :
        /\ p # "constructor"
        /\ props[n][p].kind = "function"
        /\ Truthy(props[n][p].transitionTarget)}

Registered(n) ==
    \A p \in ActionProps(n) :
        /\ Get(eventTransitions[n], p) = props[n][p].transitionTarget
        /\ lookupEventTransition(n, p) = props[n][p].transitionTarget

\* C8 as amended: after building a declaration that holds no states hash,
\* every property p other than "constructor" whose value is a transition
\* action with a non-empty target t has eventTransitions[p] = t, and
\* lookupEventTransition(p) on the state returns t.
C8_ActionsRegisteredWithoutStatesHash ==
    (last.op = "create" /\ ~last.hasStates) => Registered(last.node)

\* a declaration with a transition action and a child state
C8_Witness ==
    /\ last.op = "create" /\ ~last.hasStates
    /\ ActionProps(last.node) # {}
    /\ Len(childStates[last.node]) > 0

\* C8 as claimed, for the same properties: after building any declaration,
\* with or without a states hash, every transition action is registered.
C8_ActionsRegisteredAlways ==
    last.op = "create" => Registered(last.node)

\* n is listed among the children of p, in childStates or in states
ListedIn(n, p) ==
    \/ \E i \in DOMAIN childStates[p] : childStates[p][i] = n
    \/ \E k \in DOMAIN states[p] : states[p][k] = InstanceVal(n)

\* C9: no state is listed among the children of two different parents.
C9_OneParentLists ==
    \A n \in Created : Cardinality({p \in Created : ListedIn(n, p)}) <= 1

\* what was last written for the pair the last getPathsCache asked for
LastKey == <<last.node, last.manager.constructor, last.path>>

Stored(n, m, path) == getPathsCache(pathsCaches[n], m, path)

\* C10 as claimed: once a value is stored for a (manager type, path) pair,
\* getPathsCache returns that same value ever after.
C10_ResultNeverChanges ==
    [][\A n \in Nodes, m \in Managers, path \in Paths :
          Stored(n, m, path) # UNDEFINED => Stored(n, m, path)' = Stored(n, m, path)]_vars

\* C10 as amended: once a value is stored for a (manager type, path) pair
\* the entry is never evicted, and what getPathsCache returns for the pair
\* changes only by a later setPathsCache for that pair, to the value set.
C10_NeverEvicted ==
    [][\A n \in Nodes, m \in Managers, path \in Paths :
          Stored(n, m, path) # UNDEFINED =>
             /\ Stored(n, m, path)' # UNDEFINED
             /\ Stored(n, m, path)' # Stored(n, m, path) =>
                   /\ last'.op = "setPathsCache"
                   /\ last'.node = n
                   /\ last'.manager.constructor = m.constructor
                   /\ last'.path = path
                   /\ last'.value = Stored(n, m, path)']_vars

\* a get of an entry that was overwritten, with the other path stored too
C10_Witness ==
    /\ last.op = "getPathsCache"
    /\ last.ret # UNDEFINED
    /\ Cardinality(DOMAIN written) < nsets
    /\ \A path \in Paths : Stored(last.node, last.manager, path) # UNDEFINED

\* the positions of the last operation's calls made to callee
CallsTo(callee) == {i \in DOMAIN calls : calls[i].callee = callee}

\* the triggering argument is a UI event (an Ember.$.Event)
IsEvent(args) == Len(args) >= 1 /\ args[1].kind = "Event"

\* C5 as claimed: the action forwards one transition request, the target
\* followed by a copy of the event's contexts when the triggering argument
\* is a UI event carrying contexts, and followed by all the arguments after
\* the manager in every other case.
C5_ForwardsContextsOrAllArguments ==
    last.op = "action" =>
        /\ Len(calls) = 1
        /\ calls[1].callee = "transitionTo"
        /\ calls[1].manager = last.manager.self
        /\ calls[1].args = <<StringArg(last.target)>>
                           \o (IF IsEvent(last.args) /\ last.args[1].hasContexts
                               THEN last.args[1].contexts
                               ELSE last.args)

\* C5 as amended: the target is followed by a copy of the event's contexts
\* when the first argument is a UI event carrying contexts, by nothing when
\* it is a UI event without contexts, and by all the arguments after the
\* manager when it is no UI event.
C5_ForwardsContextsOfEvents ==
    last.op = "action" =>
        /\ Len(calls) = 1
        /\ calls[1].callee = "transitionTo"
        /\ calls[1].manager = last.manager.self
        /\ calls[1].args = <<StringArg(last.target)>>
                           \o (IF IsEvent(last.args)
                               THEN (IF last.args[1].hasContexts
                                     THEN last.args[1].contexts ELSE <<>>)
                               ELSE last.args)

\* callable(manager, 1, 2, 1) forwarding the target and the three numbers
C5_Witness ==
    /\ last.op = "action"
    /\ last.target = "stateTwo"
    /\ last.args = <<NumberArg("1"), NumberArg("2"), NumberArg("1")>>
    /\ calls[1].args = <<StringArg("stateTwo"), NumberArg("1"), NumberArg("2"),
                         NumberArg("1")>>

====
